---- MODULE Spec2Model ----
(***************************************************************************)
(* Producer / consumer task pipeline of grpc-in-go.                        *)
(*                                                                         *)
(*   producer/main.go  : ticker loop, createTask, sendTask, currentBacklog *)
(*   consumer/main.go  : server.SendTask, updateTaskState, rate limiter    *)
(*   persistence       : CreateTask / UpdateTaskState queries on `tasks`   *)
(*                                                                         *)
(* The consumer's time is kept in countdown timers: one unit stands for    *)
(* one millisecond of time.Sleep and `Interval` units for 1/R of the       *)
(* limiter.  `now` is the clock of the database, read by its writes.       *)
(***************************************************************************)
EXTENDS Integers, Sequences, FiniteSets, TLC

\* ------------------------------------------------------------------ bounds
MaxTasks == 2
MaxTime == 1
MaxUpdates == 1

\* 1/R of rate.NewLimiter(rate.Limit(TasksPerSecond), 1), in clock units
Interval == 1

\* --------------------------------------------------------- program constants
maxBacklog == 100

\* taskType := rand.Intn(10); taskValue := rand.Intn(100): the draws explored
TaskDraws == {<<0, 1>>, <<1, 2>>}
TaskTypes == {d[1] : d \in TaskDraws}
TaskValues == {d[2] : d \in TaskDraws}

\* variant: the timers do not run
TickStuck(timer) == timer

\* a timer after one unit of time
Tick(timer) == IF timer > 0 THEN timer - 1 ELSE 0

Min(a, b) == IF a <= b THEN a ELSE b
Max(a, b) == IF a >= b THEN a ELSE b

VARIABLES
    now,                    \* CURRENT_TIMESTAMP of the database
    tasks,                  \* the tasks table: sequence of rows, id = index
    history,                \* per row: the state values persisted so far
    created,                \* per row: the type and value CreateTask was given
    lastOp,                 \* the last query a client ran on the store, and its reply
    createErrors,           \* createTask calls of the producer that returned an error
    ppc,                    \* producer loop position: "idle" | "sending"
    currentBacklog,
    backlogSize,
    tasksProduced,
    taskProductionFailures,
    dispatch,               \* per row: what the generator knows of its dispatch
    awaiting,               \* the call whose reply sendTask is blocked on (0: none)
    calls,                  \* SendTask calls issued to the consumer, in order
    limiterWait,            \* limiter: time until the bucket holds a token again
    sinceAdmitted,          \* time since a call last passed limiter.Wait (capped)
    tasksProcessed,
    taskProcessingFailures,
    tasksInProcessing,
    taskTypeSums,
    admLast,                \* last admission decision taken
    admStreak               \* admissions since the last release

vars == <<now, tasks, history, created, lastOp, createErrors, ppc, currentBacklog, backlogSize, tasksProduced,
          taskProductionFailures, dispatch, awaiting, calls, limiterWait,
          sinceAdmitted, tasksProcessed, taskProcessingFailures,
          tasksInProcessing, taskTypeSums, admLast, admStreak>>

producerVars == <<ppc, currentBacklog, backlogSize, tasksProduced,
                  taskProductionFailures, dispatch, awaiting, admLast, admStreak>>
metricVars == <<tasksProcessed, taskProcessingFailures, tasksInProcessing,
                taskTypeSums>>
storeVars == <<created, lastOp, createErrors>>

\* ------------------------------------------------------------ persistence

\* INSERT INTO tasks (type, value, state) VALUES ($1, $2, 'received')
NewRow(id, ty, v, t) ==
    [id |-> id, type |-> ty, value |-> v, state |-> "received",
     creation_time |-> t, last_update_time |-> t]

\* variant: the key is not taken from the sequence
CreateTaskIdReused(rows) == 1

\* RETURNING id: the SERIAL primary key of the inserted row
CreateTaskId(rows) == Len(rows) + 1

CreateTask(rows, ty, v, t) ==
    Append(rows, NewRow(CreateTaskId(rows), ty, v, t))

\* variant: the WHERE clause is missing
UpdateTaskStateAllRows(rows, id, st, t) ==
    [i \in DOMAIN rows |-> [rows[i] EXCEPT !.state = st, !.last_update_time = t]]

\* UPDATE tasks SET state = $2, last_update_time = CURRENT_TIMESTAMP WHERE id = $1
UpdateTaskState(rows, id, st, t) ==
    [i \in DOMAIN rows |->
        IF rows[i].id = id
        THEN [rows[i] EXCEPT !.state = st, !.last_update_time = t]
        ELSE rows[i]]

\* the persisted states a row went through, extended by an UPDATE that hit it
Observe(h, id, st) ==
    [i \in DOMAIN h |-> IF i = id THEN Append(h[i], st) ELSE h[i]]

\* ------------------------------------------------------------- producer

\* variant: the comparison is strict
AdmissionRefusedStrict(cb) == cb > maxBacklog

\* if currentBacklog >= maxBacklog { continue }
AdmissionRefused(cb) == cb >= maxBacklog

\* variant: a refused tick still takes a slot
RefusedStillCounted(cb) == cb + 1

\* if currentBacklog >= maxBacklog { log...; continue }: nothing is assigned
BacklogOnRefusal(cb) == cb

\* variant: the increment is missing
AdmitUncounted(cb) == cb

\* currentBacklog++
Admit(cb) == cb + 1

\* variant: the slot is taken before createTask and kept when it fails
AdmitBeforeCreate(cb) == cb + 1

\* if err != nil { taskProductionFailures.Inc(); ...; continue }: the loop goes
\* to the next tick before currentBacklog++ is reached
BacklogOnCreateError(cb) == cb

\* variant: a failed createTask ends the producer (log.Fatalf)
AfterCreateErrorFatal == "stopped"

\* if err != nil { ...; log.Printf(...); continue }: the loop goes on
AfterCreateError == "idle"

\* variant: a failed createTask is logged and not counted
CreateErrorUncounted(n) == n

\* if err != nil { taskProductionFailures.Inc(); ... }
CountCreateError(n) == n + 1

\* variant: the slot is released only when the RPC succeeded
ReleaseOnSuccessOnly(cb, err) == IF err THEN cb ELSE cb - 1

\* sendTask(...) returned (err logged only); currentBacklog--
Release(cb, err) == cb - 1

\* &pb.TaskRequest{Id: taskID, Type: ..., Value: ...}
TaskRequest(id, ty, v) ==
    [id |-> id, type |-> ty, value |-> v, pc |-> "sent", cancelled |-> FALSE,
     rateLimitError |-> FALSE, timer |-> 0, waited |-> FALSE, slept |-> 0,
     w1 |-> "none", w2 |-> "none", result |-> "none"]

\* the zero value of persistence.Task, returned next to an error
NoTask ==
    [id |-> 0, type |-> 0, value |-> 0, state |-> "",
     creation_time |-> 0, last_update_time |-> 0]

\* no query has been run by a client of the store yet
NoOp ==
    [op |-> "none", id |-> 0, state |-> "", err |-> FALSE,
     task |-> NoTask, items |-> <<>>]

Init ==
    /\ now = 0
    /\ tasks = <<>>
    /\ history = <<>>
    /\ created = <<>>
    /\ lastOp = NoOp
    /\ createErrors = 0
    /\ ppc = "idle"
    /\ currentBacklog = 0
    /\ backlogSize = 0
    /\ tasksProduced = 0
    /\ taskProductionFailures = 0
    /\ dispatch = <<>>
    /\ awaiting = 0
    /\ calls = <<>>
    /\ limiterWait = 0
    /\ sinceAdmitted = Interval
    /\ tasksProcessed = 0
    /\ taskProcessingFailures = 0
    /\ tasksInProcessing = 0
    /\ taskTypeSums = [ty \in TaskTypes |-> 0]
    /\ admLast = "none"
    /\ admStreak = 0

\* one unit of the consumer's time passes: the bucket refills, the timers of
\* limiter.Wait and time.Sleep run down; limiter.Wait returns at the time its
\* token is there, so no time passes over a due token.  `slept` records the
\* time a call has spent since its write to processing (up to its value).
Advance ==
    /\ \A c \in DOMAIN calls : ~(calls[c].pc = "waiting" /\ calls[c].timer = 0)
    /\ limiterWait' = Max(limiterWait - 1, 0)
    /\ sinceAdmitted' = Min(sinceAdmitted + 1, Interval)
    /\ calls' = [c \in DOMAIN calls |->
                    [calls[c] EXCEPT
                        !.timer = Tick(@),
                        !.slept = IF calls[c].pc = "sleeping"
                                  THEN Min(@ + 1, calls[c].value) ELSE @]]
    /\ UNCHANGED <<now, storeVars, tasks, history, producerVars, metricVars>>

\* one iteration of `for range ticker.C` up to the point where sendTask blocks
ProducerTick ==
    /\ ppc = "idle"
    /\ IF AdmissionRefused(currentBacklog)
       THEN /\ currentBacklog' = BacklogOnRefusal(currentBacklog)
            /\ UNCHANGED <<now, tasks, history, storeVars, ppc, backlogSize,
                           tasksProduced, taskProductionFailures, dispatch,
                           awaiting, calls, limiterWait, sinceAdmitted,
                           metricVars, admLast, admStreak>>
       ELSE /\ tasksProduced + taskProductionFailures < MaxTasks
            /\ \E d \in TaskDraws, createOk \in BOOLEAN :
              LET ty == d[1]
                  v == d[2]
              IN
                IF createOk
                THEN /\ tasks' = CreateTask(tasks, ty, v, now)
                     /\ history' = Append(history, <<"received">>)
                     /\ created' = Append(created, <<ty, v>>)
                     /\ tasksProduced' = tasksProduced + 1
                     /\ currentBacklog' = Admit(currentBacklog)
                     /\ backlogSize' = currentBacklog'
                     /\ dispatch' = Append(dispatch,
                            [outcome |-> "pending",
                             inc |-> Admit(currentBacklog) - currentBacklog,
                             dec |-> 0])
                     /\ calls' = Append(calls,
                                    TaskRequest(CreateTaskId(tasks), ty, v))
                     /\ awaiting' = Len(calls) + 1
                     /\ ppc' = "sending"
                     /\ UNCHANGED <<now, lastOp, createErrors,
                                    taskProductionFailures,
                                    limiterWait, sinceAdmitted, metricVars,
                                    admLast, admStreak>>
                ELSE /\ createErrors' = createErrors + 1
                     /\ taskProductionFailures' =
                            CountCreateError(taskProductionFailures)
                     /\ currentBacklog' = BacklogOnCreateError(currentBacklog)
                     /\ ppc' = AfterCreateError
                     /\ UNCHANGED <<now, created, lastOp, tasks, history,
                                    backlogSize, tasksProduced, dispatch,
                                    awaiting, calls, limiterWait,
                                    sinceAdmitted, metricVars, admLast,
                                    admStreak>>

\* the reply of sendTask's RPC is known: log the error if any, release the slot
ProducerReply ==
    /\ ppc = "sending"
    /\ calls[awaiting].pc = "returned"
    /\ LET err == calls[awaiting].result = "error"
       IN /\ currentBacklog' = Release(currentBacklog, err)
          /\ backlogSize' = currentBacklog'
          /\ dispatch' = [dispatch EXCEPT ![calls[awaiting].id] =
                [@ EXCEPT !.outcome = IF err THEN "failed" ELSE "ok",
                          !.dec = currentBacklog - Release(currentBacklog, err)]]
    /\ ppc' = "idle"
    /\ awaiting' = 0
    /\ UNCHANGED <<now, storeVars, tasks, history, tasksProduced, taskProductionFailures,
                   calls, limiterWait, sinceAdmitted, metricVars, admLast,
                   admStreak>>

\* the connection to the consumer breaks while sendTask is blocked: the RPC
\* returns an error to the producer and the request's context is cancelled at
\* the consumer; a request not yet handed to the handler may never reach it
ConnectionFailure ==
    /\ ppc = "sending"
    /\ \E delivered \in BOOLEAN :
         /\ delivered \/ calls[awaiting].pc = "sent"
         /\ calls' = [calls EXCEPT
                ![awaiting].cancelled = (calls[awaiting].pc # "returned"),
                ![awaiting].pc = IF delivered THEN @ ELSE "lost"]
    /\ currentBacklog' = Release(currentBacklog, TRUE)
    /\ backlogSize' = currentBacklog'
    /\ dispatch' = [dispatch EXCEPT ![calls[awaiting].id] =
            [@ EXCEPT !.outcome = "failed",
                      !.dec = currentBacklog - Release(currentBacklog, TRUE)]]
    /\ ppc' = "idle"
    /\ awaiting' = 0
    /\ UNCHANGED <<now, storeVars, tasks, history, tasksProduced, taskProductionFailures,
                   limiterWait, sinceAdmitted, metricVars, admLast, admStreak>>

\* ------------------------------------------------------------- consumer

\* golang.org/x/time/rate with burst 1: the reservation uses the token the
\* bucket holds next, and the one after it is there 1/R later
AfterReserve(wait) == wait + Interval

\* a cancelled reservation gives its token back when no later one was taken
AfterCancel(timer, wait) == IF wait = timer + Interval THEN timer ELSE wait

\* rateLimitError := s.limiter.Wait(ctx); the error is logged and the handler
\* goes on to the processing write in both branches
AfterLimiterWait(rateLimitError) == "update1"

\* limiter.Wait has returned in the call with record r: the handler goes on to
\* where AfterLimiterWait says
Admitted(r, rateLimitError) ==
    [r EXCEPT !.rateLimitError = rateLimitError,
              !.timer = 0,
              !.pc = AfterLimiterWait(rateLimitError),
              !.result = IF AfterLimiterWait(rateLimitError) = "returned"
                         THEN "error" ELSE @]

\* the time since a call last went on from limiter.Wait to the processing write
SinceAdmitted(since, rateLimitError) ==
    IF AfterLimiterWait(rateLimitError) = "update1" THEN 0 ELSE since

\* variant: a failed processing write is tried again
AfterProcessingWriteRetried(ok) == IF ok THEN "sleeping" ELSE "update1"

\* variant: the error of the processing write is logged and not returned
AfterProcessingWriteIgnoringError(ok) == "sleeping"

\* err := s.updateTaskState(req.Id, "processing"); if err != nil { return nil, err }
AfterProcessingWrite(ok) == IF ok THEN "sleeping" ELSE "returned"

\* variant: the first write already stores done
FirstStateSkipsProcessing == "done"

\* the state written by the first and by the second updateTaskState of SendTask
FirstState == "processing"

\* variant: the second write stores processing again
SecondStateStaysProcessing == "processing"

\* the state written by the second updateTaskState of SendTask
SecondState == "done"

\* variant: the error of the done write is not returned
DoneWriteErrorSwallowed(ok) == "Processed"

\* err = s.updateTaskState(req.Id, "done"); if err != nil { return nil, err }
\* ...; return &pb.TaskResponse{Status: "Processed"}, nil
AfterDoneWrite(ok) == IF ok THEN "Processed" ELSE "error"

\* variant: the handler does not sleep
DelayTimeNone(v) == 0

\* variant: the sum is written without the value read under the lock
AddToSumLost(sums, ty, v) == [sums EXCEPT ![ty] = v]

\* taskTypeSumsMu.Lock(); taskTypeSums[req.Type] += float64(req.Value); Unlock()
AddToSum(sums, ty, v) == [sums EXCEPT ![ty] = @ + v]

\* variant: the sleep ends when the request's context is cancelled
SleepOverOrCancelled(timer, cancelled) == timer = 0 \/ cancelled

\* time.Sleep(delayTime) returns when the delay has passed, whatever the context
SleepOver(timer, cancelled) == timer = 0

\* variant: the row is selected by the task's type (as in an earlier consumer)
TargetRowByType(req) == req.type

\* s.updateTaskState(req.Id, ...): the row both writes are aimed at
TargetRow(req) == req.id

\* delayTime := time.Duration(req.Value) * time.Millisecond
DelayTime(v) == v

\* the handler starts: s.limiter.Wait(ctx) is entered.  `waited` records that
\* this Wait had to block; it is forgotten with the write that follows
HandlerStart(c) ==
    /\ calls[c].pc = "sent"
    /\ IF calls[c].cancelled
       THEN /\ calls' = [calls EXCEPT ![c] = Admitted(@, TRUE)]
            /\ sinceAdmitted' = SinceAdmitted(sinceAdmitted, TRUE)
            /\ UNCHANGED limiterWait
       ELSE /\ limiterWait' = AfterReserve(limiterWait)
            /\ IF limiterWait = 0
               THEN /\ calls' = [calls EXCEPT ![c] = Admitted(@, FALSE)]
                    /\ sinceAdmitted' = SinceAdmitted(sinceAdmitted, FALSE)
               ELSE /\ calls' = [calls EXCEPT ![c].pc = "waiting",
                                              ![c].waited = TRUE,
                                              ![c].timer = limiterWait]
                    /\ UNCHANGED sinceAdmitted
    /\ UNCHANGED <<now, storeVars, tasks, history, producerVars, metricVars>>

\* limiter.Wait returns nil: the reserved token is there
WaitGranted(c) ==
    /\ calls[c].pc = "waiting"
    /\ calls[c].timer = 0
    /\ calls' = [calls EXCEPT ![c] = Admitted(@, FALSE)]
    /\ sinceAdmitted' = SinceAdmitted(sinceAdmitted, FALSE)
    /\ UNCHANGED <<now, storeVars, tasks, history, producerVars, limiterWait, metricVars>>

\* limiter.Wait returns ctx.Err(): the context was cancelled while waiting
WaitCancelled(c) ==
    /\ calls[c].pc = "waiting"
    /\ calls[c].cancelled
    /\ limiterWait' = AfterCancel(calls[c].timer, limiterWait)
    /\ calls' = [calls EXCEPT ![c] = Admitted(@, TRUE)]
    /\ sinceAdmitted' = SinceAdmitted(sinceAdmitted, TRUE)
    /\ UNCHANGED <<now, storeVars, tasks, history, producerVars, metricVars>>

\* Step 1: updateTaskState(req.Id, "processing")
WriteProcessing(c) ==
    /\ calls[c].pc = "update1"
    /\ \E ok \in BOOLEAN :
         /\ calls' = [calls EXCEPT
                ![c].w1 = IF ok THEN "ok" ELSE "fail",
                ![c].waited = FALSE,
                ![c].pc = AfterProcessingWrite(ok),
                ![c].timer = IF AfterProcessingWrite(ok) = "sleeping"
                             THEN DelayTime(calls[c].value) ELSE 0,
                ![c].result = IF AfterProcessingWrite(ok) = "returned"
                              THEN "error" ELSE @]
         /\ IF ok
            THEN /\ tasks' = UpdateTaskState(tasks, TargetRow(calls[c]),
                                              FirstState, now)
                 /\ history' = Observe(history, TargetRow(calls[c]), FirstState)
            ELSE UNCHANGED <<tasks, history>>
         /\ taskProcessingFailures' = taskProcessingFailures + (IF ok THEN 0 ELSE 1)
         /\ tasksInProcessing' = tasksInProcessing +
                (IF AfterProcessingWrite(ok) = "sleeping" THEN 1 ELSE 0)
    /\ UNCHANGED <<now, storeVars, producerVars, limiterWait, sinceAdmitted, tasksProcessed,
                   taskTypeSums>>

\* Step 2 and 3: time.Sleep(delayTime) is over; updateTaskState(req.Id, "done")
WriteDone(c) ==
    /\ calls[c].pc = "sleeping"
    /\ SleepOver(calls[c].timer, calls[c].cancelled)
    /\ \E ok \in BOOLEAN :
         /\ calls' = [calls EXCEPT
                ![c].w2 = IF ok THEN "ok" ELSE "fail",
                ![c].pc = "returned",
                ![c].result = AfterDoneWrite(ok)]
         /\ IF ok
            THEN /\ tasks' = UpdateTaskState(tasks, TargetRow(calls[c]),
                                              SecondState, now)
                 /\ history' = Observe(history, TargetRow(calls[c]), SecondState)
                 /\ tasksInProcessing' = tasksInProcessing - 1
                 /\ tasksProcessed' = tasksProcessed + 1
                 /\ taskTypeSums' = AddToSum(taskTypeSums, calls[c].type,
                                             calls[c].value)
                 /\ UNCHANGED taskProcessingFailures
            ELSE /\ taskProcessingFailures' = taskProcessingFailures + 1
                 /\ UNCHANGED <<tasks, history, tasksInProcessing, tasksProcessed,
                                taskTypeSums>>
    /\ UNCHANGED <<now, storeVars, producerVars, limiterWait, sinceAdmitted>>

Next ==
    \/ Advance
    \/ ProducerTick
    \/ ProducerReply
    \/ ConnectionFailure
    \/ \E c \in DOMAIN calls : HandlerStart(c)
    \/ \E c \in DOMAIN calls : WaitGranted(c)
    \/ \E c \in DOMAIN calls : WaitCancelled(c)
    \/ \E c \in DOMAIN calls : WriteProcessing(c)
    \/ \E c \in DOMAIN calls : WriteDone(c)

Spec == Init /\ [][Next]_vars

\* ------------------------------------------- the admission statements alone
\* The three statements of the ticker loop that touch currentBacklog (the check
\* of line 136, the increment of line 152, the decrement of line 157), applied
\* as operations in any order in which every release follows an admission.

AdmissionCheck ==
    /\ IF AdmissionRefused(currentBacklog)
       THEN /\ admLast' = "refused"
            /\ currentBacklog' = BacklogOnRefusal(currentBacklog)
            /\ UNCHANGED <<backlogSize, admStreak>>
       ELSE /\ admLast' = "admitted"
            /\ currentBacklog' = Admit(currentBacklog)
            /\ backlogSize' = currentBacklog'
            /\ admStreak' = admStreak + 1
    /\ UNCHANGED <<now, storeVars, tasks, history, ppc, tasksProduced,
                   taskProductionFailures, dispatch, awaiting, calls,
                   limiterWait, sinceAdmitted, metricVars>>

ReleaseSlot ==
    /\ currentBacklog > 0
    /\ \E err \in BOOLEAN : currentBacklog' = Release(currentBacklog, err)
    /\ backlogSize' = currentBacklog'
    /\ admLast' = "released"
    /\ admStreak' = 0
    /\ UNCHANGED <<now, storeVars, tasks, history, ppc, tasksProduced,
                   taskProductionFailures, dispatch, awaiting, calls,
                   limiterWait, sinceAdmitted, metricVars>>

NextAdmission == AdmissionCheck \/ ReleaseSlot

SpecAdmission == Init /\ [][NextAdmission]_vars

\* ------------------------------------------------------- the store alone
\* The four queries of the persistence package run by any client, with any
\* arguments and in any order, against the tasks table of schema.sql.

\* the arguments explored: a type and value the table takes, and a type it
\* refuses
StoreDraws == {<<1, 2>>, <<10, 0>>}
StoreIds == 1..(MaxTasks + 1)
States == {"received", "processing", "done"}
StoreStates == States \cup {"paused"}

\* type INT CHECK (type >= 0 AND type <= 9), value INT CHECK (value >= 0 AND value <= 99)
CheckTask(ty, v) == ty >= 0 /\ ty <= 9 /\ v >= 0 /\ v <= 99

\* state TEXT CHECK (state IN ('received', 'processing', 'done'))
CheckState(st) == st \in States

\* the rows an UPDATE ... WHERE id = $1 hits
Hit(rows, id) == {i \in DOMAIN rows : rows[i].id = id}

\* variant: the first row of the table is returned, whatever its id
GetTaskByIDFirstRow(rows, id) ==
    IF rows = <<>> THEN [err |-> TRUE, task |-> NoTask]
                   ELSE [err |-> FALSE, task |-> rows[1]]

\* SELECT ... FROM tasks WHERE id = $1; row.Scan gives sql.ErrNoRows on no row
GetTaskByID(rows, id) ==
    LET found == SelectSeq(rows, LAMBDA r : r.id = id)
    IN IF found = <<>> THEN [err |-> TRUE, task |-> NoTask]
                       ELSE [err |-> FALSE, task |-> found[1]]

\* variant: the WHERE clause is missing
GetTasksByStateAll(rows, st) == rows

\* SELECT ... FROM tasks WHERE state = $1
GetTasksByState(rows, st) == SelectSeq(rows, LAMBDA r : r.state = st)

\* the UPDATEs that changed a row so far
Updates == IF history = <<>> THEN 0 ELSE
    LET RECURSIVE Sum(_)
        Sum(n) == IF n = 0 THEN 0 ELSE Sum(n - 1) + (Len(history[n]) - 1)
    IN Sum(Len(history))

\* the reply to the query op, before its fields are filled in
Reply(op) == [NoOp EXCEPT !.op = op]

\* the clock of the database moves
StoreClock ==
    /\ now < MaxTime
    /\ now' = now + 1
    /\ UNCHANGED <<tasks, history, storeVars, producerVars, calls, limiterWait,
                   sinceAdmitted, metricVars>>

\* Queries.CreateTask(ctx, {Type, Value})
StoreCreateTask ==
    /\ Len(tasks) < MaxTasks
    /\ \E d \in StoreDraws, ok \in BOOLEAN :
         IF ok /\ CheckTask(d[1], d[2])
         THEN /\ tasks' = CreateTask(tasks, d[1], d[2], now)
              /\ history' = Append(history, <<"received">>)
              /\ created' = Append(created, <<d[1], d[2]>>)
              /\ lastOp' = [Reply("CreateTask") EXCEPT
                                        !.id = CreateTaskId(tasks)]
         ELSE /\ lastOp' = [Reply("CreateTask") EXCEPT !.err = TRUE]
              /\ UNCHANGED <<tasks, history, created>>
    /\ UNCHANGED <<now, createErrors, producerVars, calls, limiterWait,
                   sinceAdmitted, metricVars>>

\* Queries.UpdateTaskState(ctx, {ID, State}): the error is ExecContext's, which
\* is nil also when the UPDATE hit no row
StoreUpdateTaskState ==
    /\ Updates < MaxUpdates
    /\ \E id \in StoreIds, st \in StoreStates, ok \in BOOLEAN :
         IF ok /\ (Hit(tasks, id) = {} \/ CheckState(st))
         THEN /\ tasks' = UpdateTaskState(tasks, id, st, now)
              /\ history' = IF Hit(tasks, id) = {} THEN history
                                                   ELSE Observe(history, id, st)
              /\ lastOp' = [Reply("UpdateTaskState") EXCEPT !.id = id,
                                        !.state = st]
         ELSE /\ lastOp' = [Reply("UpdateTaskState") EXCEPT !.id = id,
                                        !.state = st, !.err = TRUE]
              /\ UNCHANGED <<tasks, history>>
    /\ UNCHANGED <<now, created, createErrors, producerVars, calls,
                   limiterWait, sinceAdmitted, metricVars>>

\* Queries.GetTaskByID(ctx, id)
StoreGetTaskByID ==
    /\ \E id \in StoreIds, ok \in BOOLEAN :
         lastOp' = [Reply("GetTaskByID") EXCEPT
            !.id = id,
            !.err = IF ok THEN GetTaskByID(tasks, id).err ELSE TRUE,
            !.task = IF ok THEN GetTaskByID(tasks, id).task ELSE NoTask]
    /\ UNCHANGED <<now, tasks, history, created, createErrors, producerVars,
                   calls, limiterWait, sinceAdmitted, metricVars>>

\* Queries.GetTasksByState(ctx, state)
StoreGetTasksByState ==
    /\ \E st \in StoreStates, ok \in BOOLEAN :
         lastOp' = [Reply("GetTasksByState") EXCEPT
            !.state = st,
            !.err = ~ok,
            !.items = IF ok THEN GetTasksByState(tasks, st) ELSE <<>>]
    /\ UNCHANGED <<now, tasks, history, created, createErrors, producerVars,
                   calls, limiterWait, sinceAdmitted, metricVars>>

NextStore ==
    \/ StoreClock
    \/ StoreCreateTask
    \/ StoreUpdateTaskState
    \/ StoreGetTaskByID
    \/ StoreGetTasksByState

SpecStore == Init /\ [][NextStore]_vars

\* ------------------------------------------------------------------ claims

Lifecycle == <<"received", "processing", "done">>

IsPrefix(s, t) ==
    /\ Len(s) <= Len(t)
    /\ \A i \in 1..Len(s) : s[i] = t[i]

\* C1: for every task id the persisted state values, in the order they were
\* written (Create, then the writes of the SendTask call carrying the id), are
\* a prefix of (received, processing, done), and the row holds the last of them.
C1_StatesForwardOnly ==
    \A id \in DOMAIN tasks :
        /\ IsPrefix(history[id], Lifecycle)
        /\ Len(history[id]) >= 1
        /\ tasks[id].state = history[id][Len(history[id])]

C1_Witness == \E id \in DOMAIN tasks : history[id] = Lifecycle

\* C2: every admitted task raised currentBacklog by one, and once the outcome
\* of its dispatch is known to the generator - success or error - the counter
\* was lowered by exactly one for it; no slot stays taken once the loop is idle.
C2_ReleasedOncePerTask ==
    /\ \A id \in DOMAIN dispatch :
          /\ dispatch[id].inc = 1
          /\ dispatch[id].outcome = "pending" => dispatch[id].dec = 0
          /\ dispatch[id].outcome \in {"ok", "failed"} => dispatch[id].dec = 1
    /\ ppc = "idle" => currentBacklog = 0

C2_Witness ==
    /\ \E id \in DOMAIN dispatch : dispatch[id].outcome = "failed"
    /\ \E id \in DOMAIN dispatch : dispatch[id].outcome = "ok"
    /\ ppc = "idle"

Pending == {id \in DOMAIN dispatch : dispatch[id].outcome = "pending"}

\* C3: currentBacklog is the number of created tasks whose dispatch outcome is
\* not known yet, and lies in 0..maxBacklog.
C3_BacklogCountsPending ==
    /\ currentBacklog = Cardinality(Pending)
    /\ 0 <= currentBacklog
    /\ currentBacklog <= maxBacklog

C3_Witness ==
    /\ currentBacklog = 1
    /\ Len(tasks) = 2
    /\ Pending = {2}

C5_CreateFailureTakesNoSlot ==
    [][ taskProductionFailures' # taskProductionFailures =>
          /\ currentBacklog' = currentBacklog
          /\ tasks' = tasks
          /\ calls' = calls
          /\ dispatch' = dispatch
          /\ ppc' = "idle" ]_vars

C5_Witness == taskProductionFailures > 0 /\ Len(tasks) > 0

\* C6: a SendTask call whose limiter.Wait returned an error issues no
\* UpdateTaskState write, leaves the task received and does not report success.
C6_LimiterErrorAborts ==
    \A c \in DOMAIN calls :
        calls[c].rateLimitError =>
            /\ calls[c].w1 = "none"
            /\ calls[c].w2 = "none"
            /\ tasks[calls[c].id].state = "received"
            /\ calls[c].result # "Processed"

\* C7: a SendTask call whose write to processing failed has returned the error,
\* never slept and never attempted the write to done, and its task is received.
C7_ProcessingWriteFailureAborts ==
    \A c \in DOMAIN calls :
        calls[c].w1 = "fail" =>
            /\ calls[c].pc = "returned"
            /\ calls[c].result = "error"
            /\ calls[c].w2 = "none"
            /\ tasks[calls[c].id].state = "received"
            /\ history[calls[c].id] = <<"received">>

C7_Witness == \E c \in DOMAIN calls : calls[c].w1 = "fail"

\* C8: a SendTask call whose write to done failed has returned the error, and
\* its task is, and stays, in processing: no write to that row follows.
C8_DoneWriteFailureLeavesProcessing ==
    \A c \in DOMAIN calls :
        calls[c].w2 = "fail" =>
            /\ calls[c].pc = "returned"
            /\ calls[c].result = "error"
            /\ tasks[calls[c].id].state = "processing"
            /\ history[calls[c].id] = <<"received", "processing">>

C8_Witness ==
    \E c \in DOMAIN calls :
        /\ calls[c].w2 = "fail"
        /\ ppc = "idle"
        /\ Len(tasks) = MaxTasks
        /\ \A d \in DOMAIN calls : calls[d].pc \in {"returned", "lost"}

\* C9: dispatch does not block the generator: while a SendTask call is awaiting
\* its reply, the generator can perform its next tick.
C9_DispatchDoesNotBlock ==
    (ppc = "sending" /\ tasksProduced + taskProductionFailures < MaxTasks)
        => ENABLED ProducerTick

\* C10: with burst 1 at most one task is admitted to processing in any interval
\* of length 1/R: every call that goes on from limiter.Wait to the write to
\* processing does so at least 1/R after the call before it, whatever the
\* SendTask calls (concurrent or cancelled).
C10_ProcessingWritesSpaced ==
    [][ (\E c \in DOMAIN calls : calls[c].pc # "update1" /\ calls'[c].pc = "update1")
          => sinceAdmitted >= Interval ]_vars

\* C11: last_update_time of a row changes only when a write moves the row to a
\* new state; an UpdateTaskState(id, done) on a row that is already done leaves
\* the row as it is or returns an error, and never overwrites last_update_time.
C11_TimestampOnlyOnTransition ==
    [][ \A i \in DOMAIN tasks :
            tasks'[i].last_update_time # tasks[i].last_update_time
                => tasks'[i].state # tasks[i].state ]_vars

\* the forward successor of a state
Successor(st) ==
    IF st = "received" THEN "processing"
    ELSE IF st = "processing" THEN "done" ELSE "none"

\* C12: UpdateTaskState(id, s) is applied only when s is the forward successor
\* of the row's state; any other request (a skip, a regression, an id that does
\* not exist) leaves the table unchanged and returns an error.
C12_StoreEnforcesTransitions ==
    [][ (lastOp' # lastOp /\ lastOp'.op = "UpdateTaskState") =>
            \/ /\ Hit(tasks, lastOp'.id) # {}
               /\ \A i \in Hit(tasks, lastOp'.id) :
                     lastOp'.state = Successor(tasks[i].state)
            \/ /\ tasks' = tasks
               /\ lastOp'.err ]_vars

\* C13: a successful CreateTask inserts exactly one row, in state received, and
\* returns its id; ids are pairwise different; no operation changes a row's id,
\* type, value or creation_time, deletes a row, or inserts one otherwise.
C13_CreateInsertsOneRow ==
    [][ /\ Len(tasks') >= Len(tasks)
        /\ \A i \in DOMAIN tasks :
              /\ tasks'[i].id = tasks[i].id
              /\ tasks'[i].type = tasks[i].type
              /\ tasks'[i].value = tasks[i].value
              /\ tasks'[i].creation_time = tasks[i].creation_time
        /\ \A i, j \in DOMAIN tasks' : i # j => tasks'[i].id # tasks'[j].id
        /\ (lastOp' # lastOp /\ lastOp'.op = "CreateTask" /\ ~lastOp'.err) =>
              /\ Len(tasks') = Len(tasks) + 1
              /\ tasks'[Len(tasks')].state = "received"
              /\ tasks'[Len(tasks')].id = lastOp'.id
        /\ Len(tasks') # Len(tasks) =>
              (lastOp' # lastOp /\ lastOp'.op = "CreateTask" /\ ~lastOp'.err)
      ]_vars

C13_Witness ==
    /\ Len(tasks) = MaxTasks
    /\ Updates > 0
    /\ lastOp.op = "CreateTask"
    /\ ~lastOp.err

\* C14: a SendTask call returns Status "Processed" exactly when the limiter
\* granted it a token and both of its state writes succeeded; in every other
\* outcome it returns an error.
C14_ProcessedIffAllStepsOk ==
    \A c \in DOMAIN calls :
        calls[c].pc = "returned" =>
            /\ calls[c].result \in {"Processed", "error"}
            /\ calls[c].result = "Processed" <=>
                  /\ ~calls[c].rateLimitError
                  /\ calls[c].w1 = "ok"
                  /\ calls[c].w2 = "ok"

\* C15: when a SendTask call attempts the write to done, at least value time
\* units have passed since its write to processing.
C15_WorkTakesValueUnits ==
    \A c \in DOMAIN calls :
        calls[c].w2 # "none" => calls[c].slept >= calls[c].value

C15_Witness ==
    \E c \in DOMAIN calls :
        /\ calls[c].w2 = "ok"
        /\ calls[c].value = 2
        /\ calls[c].slept = 2

\* C16: a task whose dispatch the generator saw fail is in received or in
\* processing, and stays so: it is never done.
C16_FailedDispatchNeverDone ==
    \A id \in DOMAIN dispatch :
        dispatch[id].outcome = "failed" =>
            tasks[id].state \in {"received", "processing"}

\* C17: no task id is dispatched twice, and within a SendTask call neither
\* state write is attempted again once it was attempted, whatever its outcome.
C17_NothingRetried ==
    /\ \A c, d \in DOMAIN calls : c # d => calls[c].id # calls[d].id
    /\ \A c \in DOMAIN calls :
          /\ calls[c].w1 # "none" => calls[c].pc \in {"sleeping", "returned"}
          /\ calls[c].w2 # "none" => calls[c].pc = "returned"

C17_Witness ==
    /\ \E c \in DOMAIN calls : calls[c].w1 = "fail"
    /\ \E c \in DOMAIN calls : calls[c].w2 = "fail"
    /\ ppc = "idle"

\* C18: GetTasksByState(s) returns exactly the rows whose state is s at the
\* time of the call, each of them once.
C18_ListByStateExact ==
    [][ (lastOp' # lastOp /\ lastOp'.op = "GetTasksByState" /\ ~lastOp'.err) =>
          LET items == lastOp'.items
              match == {i \in DOMAIN tasks : tasks[i].state = lastOp'.state}
          IN /\ {items[k] : k \in DOMAIN items} = {tasks[i] : i \in match}
             /\ Len(items) = Cardinality(match) ]_vars

C18_Witness ==
    /\ lastOp.op = "GetTasksByState"
    /\ lastOp.state = "processing"
    /\ Len(lastOp.items) = 1
    /\ Len(tasks) = MaxTasks

\* C19: GetTaskByID(id), run after CreateTask(type, value) returned id and
\* before any UpdateTaskState on id, returns the task with that id, type and
\* value in state received; for an id never created it returns an error and
\* no task.
C19_CreateGetRoundTrip ==
    [][ (lastOp' # lastOp /\ lastOp'.op = "GetTaskByID") =>
          LET id == lastOp'.id
          IN /\ (id \in DOMAIN created /\ history[id] = <<"received">>
                                       /\ ~lastOp'.err) =>
                    /\ lastOp'.task.id = id
                    /\ lastOp'.task.type = created[id][1]
                    /\ lastOp'.task.value = created[id][2]
                    /\ lastOp'.task.state = "received"
             /\ id \notin DOMAIN created =>
                    /\ lastOp'.err
                    /\ lastOp'.task = NoTask ]_vars

C19_Witness ==
    /\ lastOp.op = "GetTaskByID"
    /\ ~lastOp.err
    /\ lastOp.id = MaxTasks
    /\ lastOp.task.type = 1
    /\ history[MaxTasks] = <<"received">>

\* the step of SendTask that failed in a call
FailedStep(c) ==
    IF calls[c].rateLimitError THEN "limiter"
    ELSE IF calls[c].w1 = "fail" THEN "processing"
    ELSE IF calls[c].w2 = "fail" THEN "done" ELSE "none"

\* C20: what SendTask returns tells the caller which step failed: a call in
\* which a step failed does not report success, and calls that failed in
\* different steps return different outcomes.
C20_FailureNamesTheStep ==
    \A c \in DOMAIN calls :
        (calls[c].pc = "returned" /\ FailedStep(c) # "none") =>
            /\ calls[c].result # "Processed"
            /\ \A d \in DOMAIN calls :
                  (calls[d].pc = "returned" /\ FailedStep(d) # "none"
                                            /\ FailedStep(d) # FailedStep(c))
                      => calls[d].result # calls[c].result

RECURSIVE SumProcessed(_, _)
SumProcessed(ty, n) ==
    IF n = 0 THEN 0
    ELSE SumProcessed(ty, n - 1) +
         (IF calls[n].type = ty /\ calls[n].result = "Processed"
          THEN calls[n].value ELSE 0)

\* C23: taskTypeSums[t] is the sum of the values of exactly the calls of type t
\* that returned success, after any interleaving.
C23_SumsMatchProcessed ==
    \A ty \in TaskTypes : taskTypeSums[ty] = SumProcessed(ty, Len(calls))

C23_Witness ==
    /\ Len(calls) = MaxTasks
    /\ \A c \in DOMAIN calls : calls[c].type = 0 /\ calls[c].result = "Processed"
    /\ taskTypeSums[0] = MaxTasks

\* C25: where a task created later is done before one created earlier, each of
\* the two has still gone through received, processing, done in that order.
C25_NoOrderAcrossTasks ==
    \A i, j \in DOMAIN tasks :
        (i < j /\ tasks[j].state = "done" /\ tasks[i].state # "done") =>
            /\ history[j] = Lifecycle
            /\ IsPrefix(history[i], Lifecycle)
            /\ history[i] # <<>>

C25_Witness ==
    \E i, j \in DOMAIN tasks :
        /\ i < j
        /\ tasks[j].state = "done"
        /\ tasks[i].state = "processing"
        /\ \E c \in DOMAIN calls : calls[c].id = i /\ calls[c].pc = "sleeping"

\* C26: an UpdateTaskState(id, s) changes nothing but the state and the
\* last_update_time of the row whose id is id; every other row stays as it is.
C26_UpdateTouchesOneRow ==
    [][ Len(tasks') = Len(tasks) =>
          \A i \in DOMAIN tasks :
              tasks'[i] # tasks[i] =>
                  /\ lastOp'.op = "UpdateTaskState"
                  /\ ~lastOp'.err
                  /\ tasks[i].id = lastOp'.id
                  /\ tasks'[i] = [tasks[i] EXCEPT
                        !.state = tasks'[i].state,
                        !.last_update_time = tasks'[i].last_update_time] ]_vars

C26_Witness ==
    /\ Len(tasks) = MaxTasks
    /\ lastOp.op = "UpdateTaskState"
    /\ lastOp.id = 1
    /\ tasks[1].state = "done"
    /\ \A i \in DOMAIN tasks : i # 1 => tasks[i].state = "received"

\* C27: a failed CreateTask is counted once and does not end the generator:
\* the loop is at its next tick and creation is attempted again.
C27_CreateFailureIsLocal ==
    /\ [](/\ ppc \in {"idle", "sending"}
          /\ (/\ taskProductionFailures > 0
              /\ ppc = "idle"
              /\ tasksProduced + taskProductionFailures < MaxTasks)
                => ENABLED ProducerTick)
    /\ [][ taskProductionFailures' # taskProductionFailures =>
             /\ taskProductionFailures' = taskProductionFailures + 1
             /\ tasksProduced' = tasksProduced
             /\ ppc' = "idle" ]_vars

C27_Witness == taskProductionFailures = MaxTasks

\* C30: the id of a SendTask request is the id CreateTask returned for the
\* task with the request's type and value, and each state write of the call
\* changes the row with that id and no other row.
C30_IdentityEndToEnd ==
    [][ /\ Len(calls') # Len(calls) =>
              /\ Len(tasks') = Len(tasks) + 1
              /\ calls'[Len(calls')].id = tasks'[Len(tasks')].id
              /\ calls'[Len(calls')].type = tasks'[Len(tasks')].type
              /\ calls'[Len(calls')].value = tasks'[Len(tasks')].value
        /\ \A c \in DOMAIN calls :
              (\/ calls[c].w1 = "none" /\ calls'[c].w1 = "ok"
               \/ calls[c].w2 = "none" /\ calls'[c].w2 = "ok") =>
                  \E i \in DOMAIN tasks :
                      /\ tasks[i].id = calls[c].id
                      /\ tasks'[i].state # tasks[i].state
                      /\ \A j \in DOMAIN tasks : j # i => tasks'[j] = tasks[j]
      ]_vars

C30_Witness ==
    /\ Len(tasks) = MaxTasks
    /\ tasks[1].type = tasks[2].type
    /\ tasks[1].state = "received"
    /\ tasks[2].state = "done"

\* --------------------------------------------------------------- progress

\* the calls the bounds allow
Callers == 1..MaxTasks

\* the steps of one SendTask handler; each handler runs in a goroutine of its
\* own, which the Go scheduler does not leave runnable forever
HandlerStep(c) ==
    /\ c \in DOMAIN calls
    /\ \/ HandlerStart(c)
       \/ WaitGranted(c)
       \/ WriteProcessing(c)
       \/ WriteDone(c)

\* the consumer runs: time passes and every handler that can take a step
\* takes one in the end; the producer and the connection are left as in Spec
SpecConsumerLive ==
    /\ Spec
    /\ WF_vars(Advance)
    /\ \A c \in Callers : WF_vars(HandlerStep(c))

\* the producer runs and time passes; nothing is assumed of the consumer or of
\* the connection, so a SendTask call may stay without a reply
SpecProducerLive ==
    /\ Spec
    /\ WF_vars(Advance)
    /\ WF_vars(ProducerTick)
    /\ WF_vars(ProducerReply)

C24_NoCancelAfterProcessing ==
    /\ \A c \in Callers :
         (c \in DOMAIN calls /\ calls[c].w1 = "ok")
            ~> (c \in DOMAIN calls /\ calls[c].w2 # "none")
    /\ [](\A c \in DOMAIN calls :
            /\ calls[c].w1 = "ok" /\ calls[c].w2 = "none"
                => calls[c].pc = "sleeping"
            /\ calls[c].w2 # "none"
                => calls[c].slept = DelayTime(calls[c].value))

\* a cancelled call that passed the limiter slept its two units and wrote done
C24_Witness ==
    \E c \in DOMAIN calls :
        /\ calls[c].cancelled
        /\ ~calls[c].rateLimitError
        /\ calls[c].w1 = "ok"
        /\ calls[c].w2 = "ok"
        /\ calls[c].value = 2
        /\ calls[c].slept = 2

\* C28: a dispatched task is done in the end, unless its context is cancelled
\* or one of its two writes fails.
C28_DispatchedEventuallyDone ==
    \A c \in Callers :
        (c \in DOMAIN calls)
            ~> (/\ c \in DOMAIN calls
                /\ \/ calls[c].cancelled
                   \/ calls[c].w1 = "fail"
                   \/ calls[c].w2 = "fail"
                   \/ tasks[calls[c].id].state = "done")

\* a task whose call was never cancelled is done
C28_Witness ==
    \E c \in DOMAIN calls :
        /\ ~calls[c].cancelled
        /\ calls[c].w1 = "ok"
        /\ calls[c].w2 = "ok"
        /\ tasks[calls[c].id].state = "done"

\* C29: every increment of currentBacklog is followed by its decrement in the
\* end and the generator gets back to its ticker, also when the consumer
\* never replies.
C29_IncrementEventuallyReleased ==
    /\ \A n \in Callers :
         (n \in DOMAIN dispatch /\ dispatch[n].inc = 1)
            ~> (n \in DOMAIN dispatch /\ dispatch[n].dec = 1)
    /\ (ppc = "sending") ~> (ppc = "idle")

\* ---------------------------------------------------------- other clients

\* SendTask is a public RPC: a client other than the producer of this
\* repository may send any id, whether a row has it or not, and may have
\* several requests in flight.  Rows are inserted by CreateTask as before.
ClientDraw == <<0, 1>>

\* some generator inserts a row
ClientCreate ==
    /\ Len(tasks) < MaxTasks
    /\ tasks' = CreateTask(tasks, ClientDraw[1], ClientDraw[2], now)
    /\ history' = Append(history, <<"received">>)
    /\ created' = Append(created, ClientDraw)
    /\ UNCHANGED <<now, lastOp, createErrors, producerVars, calls,
                   limiterWait, sinceAdmitted, metricVars>>

\* a request arrives at the consumer; its context is never cancelled
ClientSend ==
    /\ Len(calls) < MaxTasks
    /\ \E id \in StoreIds :
         calls' = Append(calls, TaskRequest(id, ClientDraw[1], ClientDraw[2]))
    /\ UNCHANGED <<now, storeVars, tasks, history, producerVars, limiterWait,
                   sinceAdmitted, metricVars>>

NextClients ==
    \/ Advance
    \/ ClientCreate
    \/ ClientSend
    \/ \E c \in DOMAIN calls : HandlerStart(c)
    \/ \E c \in DOMAIN calls : WaitGranted(c)
    \/ \E c \in DOMAIN calls : WriteProcessing(c)
    \/ \E c \in DOMAIN calls : WriteDone(c)

SpecClients == Init /\ [][NextClients]_vars

\* C31: when SendTask replies Processed to a request with id i, a row with id
\* i exists and its state is done, whatever id the client sent.
C31_ProcessedMeansRowDone ==
    [][ \A c \in DOMAIN calls :
          (calls[c].result # "Processed" /\ calls'[c].result = "Processed")
            => \E i \in DOMAIN tasks' :
                  /\ tasks'[i].id = calls'[c].id
                  /\ tasks'[i].state = "done" ]_vars

\* the calls whose handler has returned
Returned == {c \in DOMAIN calls : calls[c].pc = "returned"}

\* C32: the tasksInProcessing gauge is never negative and is the number of
\* calls that wrote processing and have not returned; with no call running
\* it is 0.
C32_GaugeCountsRunning ==
    /\ tasksInProcessing >= 0
    /\ tasksInProcessing =
          Cardinality({c \in DOMAIN calls :
                          calls[c].w1 = "ok" /\ c \notin Returned})

\* C33: every returned call is counted once: in tasksProcessed when no step
\* failed in it, in taskProcessingFailures when the limiter or one of the two
\* writes failed; so the two counters add up to the calls that have returned.
C33_ReturnedCountedOnce ==
    /\ tasksProcessed =
          Cardinality({c \in Returned : FailedStep(c) = "none"})
    /\ taskProcessingFailures =
          Cardinality({c \in Returned : FailedStep(c) # "none"})
    /\ tasksProcessed + taskProcessingFailures = Cardinality(Returned)

\* C34: after every iteration of the generator loop tasksProduced is the
\* number of CreateTask calls that succeeded, taskProductionFailures the
\* number that failed and the backlogSize gauge the value of currentBacklog;
\* a dispatch that fails changes neither counter.
C34_ProducerAccounting ==
    /\ [](ppc = "idle" =>
            /\ tasksProduced = Len(created)
            /\ taskProductionFailures = createErrors
            /\ backlogSize = currentBacklog)
    /\ [][ (\E n \in DOMAIN dispatch :
                /\ dispatch[n].outcome = "pending"
                /\ dispatch'[n].outcome = "failed")
           => /\ tasksProduced' = tasksProduced
              /\ taskProductionFailures' = taskProductionFailures ]_vars

\* one create failed, one succeeded and its dispatch failed, and the loop is
\* back at its ticker
C34_Witness ==
    /\ ppc = "idle"
    /\ createErrors = 1
    /\ Len(created) = 1
    /\ dispatch[1].outcome = "failed"

====
